---- MODULE Spec2Model ----
(***************************************************************************)
(* Model of 7tv-on-demand: the emote registry of services/emoteService.ts  *)
(* (allEmotes, the name-keyed NodeCache, fetchEmoteSet / fetchEmotes /     *)
(* findEmote / refreshEmotes / fetchEmoteImage) and the routes of index.ts *)
(* that use it.                                                            *)
(*                                                                         *)
(* A string is a sequence of one-character strings, so that trim(),        *)
(* toLowerCase() and toUpperCase() are computed character by character.    *)
(* An Emote keeps the two fields the registry reads, id and name; an       *)
(* upstream record says for each of them whether it is present.            *)
(***************************************************************************)
EXTENDS Integers, Sequences, FiniteSets, TLC

VARIABLES emoteSetIds, shape, upstream, allEmotes, emoteCache, loads, lastJoin, req, listening,
          lastSettled, overlapped

vars == <<emoteSetIds, shape, upstream, allEmotes, emoteCache, loads, lastJoin, req, listening,
          lastSettled, overlapped>>

(* ------------------------------ bounds --------------------------------- *)
MaxSets == 2
MaxRespLen == 2
MaxLoads == 2
\* A run explores one shape: so many sets, records per response and
\* overlapping fetchEmotes calls, within sets * records * calls^2 <= MaxWork.
MaxWork == 4

(* ------------------------------ strings -------------------------------- *)
EmptyString == <<>>

toLowerChar(c) ==
    CASE c = "X" -> "x"
      [] c = "Y" -> "y"
      [] c = "S" -> "s"
      [] OTHER -> c

\* String.prototype.toUpperCase maps one character to a string: the sharp s
\* has no single upper-case character and becomes "SS".
toUpperChar(c) ==
    CASE c = "x" -> <<"X">>
      [] c = "y" -> <<"Y">>
      [] c = "s" -> <<"S">>
      [] c = "ß" -> <<"S", "S">>
      [] OTHER -> <<c>>

toLowerCase(s) == [i \in 1..Len(s) |-> toLowerChar(s[i])]

RECURSIVE toUpperCase(_)
toUpperCase(s) ==
    IF s = <<>> THEN <<>> ELSE toUpperChar(Head(s)) \o toUpperCase(Tail(s))

RECURSIVE trimStart(_)
trimStart(s) ==
    IF s # <<>> /\ Head(s) = " " THEN trimStart(Tail(s)) ELSE s

RECURSIVE trimEnd(_)
trimEnd(s) ==
    IF s # <<>> /\ s[Len(s)] = " " THEN trimEnd(SubSeq(s, 1, Len(s) - 1)) ELSE s

trim(s) == trimEnd(trimStart(s))

(* --------------------------- upstream data ----------------------------- *)
Raw(hasId, id, hasName, name) ==
    [hasId |-> hasId, id |-> id, hasName |-> hasName, name |-> name]

RecX1 == Raw(TRUE, "e1", TRUE, <<"x">>)
RecX2 == Raw(TRUE, "e2", TRUE, <<"X">>)
RecNoId == Raw(FALSE, "", TRUE, <<"y">>)
RecNoName == Raw(TRUE, "e6", FALSE, <<>>)
RecPadded == Raw(TRUE, "e3", TRUE, <<" ", "x">>)
RecSharpS == Raw(TRUE, "e4", TRUE, <<"ß">>)
RecEmptyName == Raw(TRUE, "e5", TRUE, <<>>)

\* The records one upstream can serve: a pool per scenario.
Pools ==
    { {RecX1, RecX2},
      {RecX1, RecNoId},
      {RecPadded, RecEmptyName},
      {RecSharpS, RecNoName} }

RECURSIVE SeqsUpTo(_, _)
SeqsUpTo(S, n) ==
    IF n = 0 THEN {<<>>}
    ELSE LET shorter == SeqsUpTo(S, n - 1)
         IN shorter \cup {Append(s, x) : s \in {t \in shorter : Len(t) = n - 1}, x \in S}

\* What axios.get of a set returns: it throws (network error, timeout, HTTP
\* error status), or it yields a body that has an emotes array or has none.
ErrorResponse == [kind |-> "error", emotes |-> <<>>]
NoEmotesResponse == [kind |-> "noEmotes", emotes |-> <<>>]
Body(records) == [kind |-> "body", emotes |-> records]

Responses(pool) ==
    {ErrorResponse, NoEmotesResponse} \cup {Body(s) : s \in SeqsUpTo(pool, shape.len)}

(* ------------------------------ schemas -------------------------------- *)
\* SevenTVEmoteSchema: id and name are required strings.
SevenTVEmoteSchemaOk(r) == r.hasId /\ r.hasName

\* SevenTVEmoteSetSchema: an object with an array of SevenTVEmoteSchema; one
\* element that fails makes safeParse of the whole response fail.
SevenTVEmoteSetSchemaOk(resp) ==
    /\ resp.kind = "body"
    /\ \A i \in 1..Len(resp.emotes) : SevenTVEmoteSchemaOk(resp.emotes[i])

mapSevenTVEmote(r) == [id |-> r.id, name |-> r.name]

\* What a fetchEmoteSet promise settles with: it is fulfilled with a list of
\* Emotes or it is rejected.
Fulfilled(emotes) == [settled |-> TRUE, threw |-> FALSE, emotes |-> emotes]
Rejected == [settled |-> TRUE, threw |-> TRUE, emotes |-> <<>>]
Unsettled == [settled |-> FALSE, threw |-> FALSE, emotes |-> <<>>]

fetchEmoteSetNoCatch(resp) ==
    IF resp.kind = "error" THEN Rejected
    ELSE IF ~SevenTVEmoteSetSchemaOk(resp) THEN Fulfilled(<<>>)
    ELSE Fulfilled([i \in 1..Len(resp.emotes) |-> mapSevenTVEmote(resp.emotes[i])])

\* try { get; safeParse; map } catch { return [] }
fetchEmoteSet(resp) ==
    IF resp.kind = "error" THEN Fulfilled(<<>>)
    ELSE IF ~SevenTVEmoteSetSchemaOk(resp) THEN Fulfilled(<<>>)
    ELSE Fulfilled([i \in 1..Len(resp.emotes) |-> mapSevenTVEmote(resp.emotes[i])])

(* ------------------------------ registry ------------------------------- *)
NoEmote == [id |-> "none", name |-> <<>>]

\* NodeCache: the keys present, and the value stored under each.
CacheHas(cache, k) == k \in DOMAIN cache
CacheSet(cache, k, v) == [x \in DOMAIN cache \cup {k} |-> IF x = k THEN v ELSE cache[x]]
CacheDel(cache, k) == [x \in DOMAIN cache \ {k} |-> cache[x]]
EmptyCache == [x \in {} |-> NoEmote]

RECURSIVE flat(_)
flat(lists) == IF lists = <<>> THEN <<>> ELSE Head(lists) \o flat(Tail(lists))

\* for (const emote of allEmotes) emoteCache.set(emote.name.toLowerCase(), emote)
RECURSIVE cacheAll(_, _)
cacheAll(cache, emotes) ==
    IF emotes = <<>> THEN cache
    ELSE cacheAll(CacheSet(cache, toLowerCase(Head(emotes).name), Head(emotes)), Tail(emotes))

RECURSIVE arrayFindCaseSensitive(_, _)
arrayFindCaseSensitive(emotes, normalizedName) ==
    IF emotes = <<>> THEN NoEmote
    ELSE IF Head(emotes).name = normalizedName THEN Head(emotes)
    ELSE arrayFindCaseSensitive(Tail(emotes), normalizedName)

\* Array.prototype.find: the first element that matches.
RECURSIVE arrayFind(_, _)
arrayFind(emotes, normalizedName) ==
    IF emotes = <<>> THEN NoEmote
    ELSE IF toLowerCase(Head(emotes).name) = normalizedName THEN Head(emotes)
    ELSE arrayFind(Tail(emotes), normalizedName)

FindOutcome(result, cache, cacheRead, scanned) ==
    [result |-> result, cache |-> cache, cacheRead |-> cacheRead, scanned |-> scanned]

findEmoteNoGuard(emoteName, emotes, cache) ==
    LET normalizedName == toLowerCase(trim(emoteName))
    IN IF CacheHas(cache, normalizedName)
       THEN FindOutcome(cache[normalizedName], cache, TRUE, FALSE)
       ELSE LET emote == arrayFind(emotes, normalizedName)
            IN IF emote # NoEmote
               THEN FindOutcome(emote, CacheSet(cache, normalizedName, emote), TRUE, TRUE)
               ELSE FindOutcome(NoEmote, cache, TRUE, TRUE)

\* if (!emoteName) return null; then the cache, then the scan.
findEmote(emoteName, emotes, cache) ==
    IF emoteName = EmptyString THEN FindOutcome(NoEmote, cache, FALSE, FALSE)
    ELSE LET normalizedName == toLowerCase(trim(emoteName))
         IN IF CacheHas(cache, normalizedName)
            THEN FindOutcome(cache[normalizedName], cache, TRUE, FALSE)
            ELSE LET emote == arrayFind(emotes, normalizedName)
                 IN IF emote # NoEmote
                    THEN FindOutcome(emote, CacheSet(cache, normalizedName, emote), TRUE, TRUE)
                    ELSE FindOutcome(NoEmote, cache, TRUE, TRUE)

(* ------------------------------- loads --------------------------------- *)
LoadIds == 1..shape.loads
SetIndexes == 1..Len(emoteSetIds)

Pending == [kind |-> "pending", emotes |-> <<>>]

\* A load: fetched[i] is what the request for the i-th configured set got,
\* results is the array Promise.all builds, returned / threw is how the
\* fetchEmotes call ended; settledOrder lists the sets in the order their
\* requests settled, startedAfter the calls that were in flight when this
\* one began.
IdleLoad ==
    [pc |-> "idle", kind |-> "load", fetched |-> <<>>, results |-> <<>>,
     returned |-> <<>>, threw |-> FALSE, settledOrder |-> <<>>, startedAfter |-> {}]

\* fetchEmotes up to its await: with no set configured it returns [] at once,
\* otherwise it issues one fetchEmoteSet per configured set.
StartedLoad(kind) ==
    IF Len(emoteSetIds) = 0
    THEN [pc |-> "done", kind |-> kind, fetched |-> <<>>, results |-> <<>>,
          returned |-> <<>>, threw |-> FALSE, settledOrder |-> <<>>, startedAfter |-> {}]
    ELSE [pc |-> "fetching", kind |-> kind,
          fetched |-> [i \in SetIndexes |-> Pending],
          results |-> [i \in SetIndexes |-> Unsettled],
          returned |-> <<>>, threw |-> FALSE, settledOrder |-> <<>>, startedAfter |-> {}]

AllSettled(l) == \A i \in SetIndexes : loads[l].fetched[i] # Pending
AnyRejected(l) == \E i \in SetIndexes : loads[l].results[i].threw
InFlight == {l \in LoadIds : loads[l].pc = "fetching"}

\* Once the last fetchEmoteSet of a call has settled, Promise.all and the rest
\* of fetchEmotes run as microtasks, before any other callback or request.
NoJoinPending == \A l \in InFlight : ~AllSettled(l)

CanStart(l) == NoJoinPending /\ loads[l].pc \in {"idle", "done"}

\* The call l begins: it is recorded after the calls in flight, and no longer
\* as one that was in flight when the others began.
Begin(l, kind) ==
    [m \in LoadIds |->
        IF m = l THEN [StartedLoad(kind) EXCEPT !.startedAfter = InFlight \ {l}]
        ELSE [loads[m] EXCEPT !.startedAfter = loads[m].startedAfter \ {l}]]

(* ---------------------------- HTTP responses --------------------------- *)
\* One request at a time is followed from its arrival to its response.
IdleReq ==
    [pc |-> "idle", route |-> "", emoteName |-> <<>>, format |-> "", size |-> "",
     accept |-> "", emoteId |-> "", gets |-> 0, cdn |-> "none", load |-> 0,
     status |-> 0, contentType |-> "", body |-> "", cacheControl |-> 0]

\* cacheControl(1800) is mounted on '/api', imageCacheControl on '/:emoteName';
\* app.use matches a path prefix, and ':emoteName' matches any first segment.
ApiMaxAge == 1800
ImageMaxAge == 604800
cacheControlHeaders(firstSegment) ==
    LET afterApi == IF firstSegment = "api" THEN ApiMaxAge ELSE 0
    IN IF firstSegment # "" THEN ImageMaxAge ELSE afterApi

FirstSegment(route) == IF route \in {"apiEmotes", "apiEmote"} THEN "api" ELSE "emoteName"

Arrived(route, emoteName, format, size, accept) ==
    [IdleReq EXCEPT !.pc = "handling", !.route = route, !.emoteName = emoteName,
                    !.format = format, !.size = size, !.accept = accept,
                    !.cacheControl = cacheControlHeaders(FirstSegment(route))]

Json(r, status, body) ==
    [r EXCEPT !.pc = "done", !.status = status, !.contentType = "application/json",
              !.body = body]

\* errorHandler: err.status || err.statusCode || 500, and a JSON error body.
errorHandler(r, errStatus) ==
    Json(r, IF errStatus # 0 THEN errStatus ELSE 500, "error")

\* GET /api/emotes after await fetchEmotes(): the list as JSON, or next(error).
apiEmotesRespond(r, load) ==
    IF load.threw THEN errorHandler(r, 0) ELSE Json(r, 200, "emoteList")

\* The load whose assignment allEmotes holds is about to be forgotten.
Forget(l) == IF lastJoin = l THEN 0 ELSE lastJoin

fetchEmotes(l) ==
    /\ CanStart(l)
    /\ loads' = Begin(l, "load")
    /\ lastJoin' = Forget(l)
    /\ overlapped' = (overlapped \/ InFlight # {})
    /\ UNCHANGED <<emoteSetIds, shape, upstream, lastSettled, allEmotes, emoteCache, req, listening>>

refreshEmotesClearing(l) ==
    /\ CanStart(l)
    /\ emoteCache' = EmptyCache
    /\ allEmotes' = <<>>
    /\ loads' = Begin(l, "refresh")
    /\ lastJoin' = Forget(l)
    /\ overlapped' = (overlapped \/ InFlight # {})
    /\ UNCHANGED <<emoteSetIds, shape, upstream, lastSettled, req, listening>>

\* refreshEmotes: emoteCache.flushAll(), then fetchEmotes().
refreshEmotes(l) ==
    /\ CanStart(l)
    /\ emoteCache' = EmptyCache
    /\ loads' = Begin(l, "refresh")
    /\ lastJoin' = Forget(l)
    /\ overlapped' = (overlapped \/ InFlight # {})
    /\ UNCHANGED <<emoteSetIds, shape, upstream, lastSettled, allEmotes, req, listening>>

settleInCompletionOrder(results, i, outcome) ==
    LET first == CHOOSE k \in 1..Len(results) :
                    /\ ~results[k].settled
                    /\ \A j \in 1..(k - 1) : results[j].settled
    IN [results EXCEPT ![first] = outcome]

\* Promise.all keeps each value at the index of its promise.
promiseAllSettle(results, i, outcome) == [results EXCEPT ![i] = outcome]

\* One of the concurrent fetchEmoteSet calls settles, in any order.
FetchEmoteSetDone(l, i, resp) ==
    /\ NoJoinPending
    /\ loads[l].pc = "fetching"
    /\ loads[l].fetched[i] = Pending
    /\ loads' = [loads EXCEPT
                    ![l].fetched[i] = resp,
                    ![l].settledOrder = Append(loads[l].settledOrder, i),
                    ![l].results = promiseAllSettle(loads[l].results, i, fetchEmoteSet(resp))]
    /\ lastSettled' = l
    /\ UNCHANGED <<emoteSetIds, shape, upstream, overlapped, allEmotes, emoteCache, lastJoin, req, listening>>

assignOnce(current, merged) == IF current = <<>> THEN merged ELSE current

assignMerged(current, merged) == current \o merged

\* allEmotes = emoteSets.flat(): the list is replaced, whatever it held.
assignAllEmotes(current, merged) == merged

\* Promise.all settled. Fulfilled: the rest of fetchEmotes runs without
\* interruption. Rejected: the catch block logs and rethrows, nothing is stored.
FetchEmotesJoin(l) ==
    /\ loads[l].pc = "fetching"
    /\ AllSettled(l)
    /\ IF AnyRejected(l)
       THEN /\ loads' = [loads EXCEPT ![l].pc = "done", ![l].threw = TRUE]
            /\ UNCHANGED <<allEmotes, emoteCache, lastJoin>>
       ELSE LET merged == flat([i \in SetIndexes |-> loads[l].results[i].emotes])
            IN /\ allEmotes' = assignAllEmotes(allEmotes, merged)
               /\ emoteCache' = cacheAll(emoteCache, merged)
               /\ loads' = [loads EXCEPT ![l].pc = "done", ![l].returned = allEmotes']
               /\ lastJoin' = l
    /\ req' = IF req.pc = "awaitLoad" /\ req.load = l
              THEN apiEmotesRespond(req, loads'[l])
              ELSE req
    /\ UNCHANGED <<emoteSetIds, shape, upstream, lastSettled, overlapped, listening>>

(* ------------------------------ lookups -------------------------------- *)
\* The names asked for: those the pool serves, in either case, and a few others.
PoolNames == {r.name : r \in upstream}
FindNames ==
    PoolNames \cup {toUpperCase(n) : n \in PoolNames} \cup {toLowerCase(n) : n \in PoolNames}
        \cup {trim(n) : n \in PoolNames} \cup {EmptyString, <<" ">>, <<"x", " ">>}

Find(name) ==
    /\ NoJoinPending
    /\ emoteCache' = findEmote(name, allEmotes, emoteCache).cache
    /\ overlapped' = (overlapped \/ InFlight # {})
    /\ UNCHANGED <<emoteSetIds, shape, upstream, lastSettled, allEmotes, loads, lastJoin, req, listening>>

\* An entry outlives its TTL (config.cacheTTL seconds): get() no longer sees it.
Expire(k) ==
    /\ NoJoinPending
    /\ CacheHas(emoteCache, k)
    /\ emoteCache' = CacheDel(emoteCache, k)
    /\ UNCHANGED <<emoteSetIds, shape, upstream, lastSettled, overlapped, allEmotes, loads, lastJoin, req, listening>>

(* ------------------------------- images -------------------------------- *)
ImageFormats == {"webp", "avif", "gif"}
QueryFormats == ImageFormats \cup {"", "png"}
QuerySizes == {"", "1x"}
AcceptHeaders == {"", "image/webp", "text/html"}
includesTextHtml(accept) == accept = "text/html"

\* getEmoteUrl: `${config.cdnBaseUrl}/${emoteId}/${size}.${format}`
getEmoteUrl(emoteId, size, format) ==
    <<"https://cdn.7tv.app/emote", "/", emoteId, "/", size, ".", format>>

contentTypeOf(format) ==
    IF format = "webp" THEN "image/webp"
    ELSE IF format = "avif" THEN "image/avif"
    ELSE "image/gif"

\* How the call of fetchEmoteImage ends once its one axios.get has settled.
ImageOk(format) == [threw |-> FALSE, errStatus |-> 0, contentType |-> contentTypeOf(format)]
ImageThrew(errStatus) == [threw |-> TRUE, errStatus |-> errStatus, contentType |-> ""]

fetchEmoteImageFallback(format, cdn) == ImageOk(format)

\* try { get; return { buffer, contentType } } catch { log; throw error }
fetchEmoteImage(format, cdn) ==
    IF cdn.ok THEN ImageOk(format) ELSE ImageThrew(cdn.errStatus)

\* What the CDN answers: the bytes, or a failure that carries an HTTP status
\* (AxiosError.status) or none (network error, timeout).
CdnAnswers == {[ok |-> TRUE, errStatus |-> 0], [ok |-> FALSE, errStatus |-> 0],
               [ok |-> FALSE, errStatus |-> 404]}

(* ------------------------------- routes -------------------------------- *)
\* A request is handled once the previous one is answered, so no handler
\* runs while the load of GET /api/emotes is in flight.
CanArrive == listening /\ NoJoinPending /\ req.pc \in {"idle", "done"}

\* The names a path segment can carry: never the empty string.
RequestNames == FindNames \ {EmptyString}

\* handleEmoteRequest up to its second await.
handleEmoteRequest(r, cache) ==
    IF r.emoteName = EmptyString THEN [req |-> Json(r, 400, "error"), cache |-> cache]
    ELSE LET found == findEmote(r.emoteName, allEmotes, cache)
             size == IF r.size = "" THEN "3x" ELSE r.size
         IN IF found.result = NoEmote
            THEN [req |-> Json(r, 404, "error"), cache |-> found.cache]
            ELSE [req |-> [r EXCEPT !.pc = "awaitImage", !.emoteId = found.result.id,
                                    !.size = size, !.gets = 1],
                  cache |-> found.cache]

\* GET /:emoteName.webp, /:emoteName.avif, /:emoteName.gif
GetEmoteWithExtension(emoteName, ext, size) ==
    /\ CanArrive
    /\ LET h == handleEmoteRequest(Arrived("emoteName.ext", emoteName, ext, size, ""), emoteCache)
       IN req' = h.req /\ emoteCache' = h.cache
    /\ UNCHANGED <<emoteSetIds, shape, upstream, lastSettled, overlapped, allEmotes, loads, lastJoin, listening>>

\* GET /:emoteName: format = req.query.format || 'webp'; a client that
\* accepts text/html gets the Open Graph page, the others the image.
GetEmote(emoteName, queryFormat, size, accept) ==
    /\ CanArrive
    /\ LET format == IF queryFormat = "" THEN "webp" ELSE queryFormat
           r == Arrived("emoteName", emoteName, format, size, accept)
       IN IF includesTextHtml(accept)
          THEN LET found == findEmote(emoteName, allEmotes, emoteCache)
               IN /\ emoteCache' = found.cache
                  /\ req' = IF found.result = NoEmote
                            THEN Json(r, 404, "error")
                            ELSE [r EXCEPT !.pc = "done", !.emoteId = found.result.id,
                                           !.status = 200, !.contentType = "text/html",
                                           !.body = "htmlPage"]
          ELSE LET h == handleEmoteRequest(r, emoteCache)
               IN req' = h.req /\ emoteCache' = h.cache
    /\ UNCHANGED <<emoteSetIds, shape, upstream, lastSettled, overlapped, allEmotes, loads, lastJoin, listening>>

\* The CDN request of fetchEmoteImage settles and handleEmoteRequest ends:
\* res.send(buffer) with the content type, or next(error).
CdnResponds(cdn) ==
    /\ NoJoinPending
    /\ req.pc = "awaitImage"
    /\ LET image == fetchEmoteImage(req.format, cdn)
           r == [req EXCEPT !.cdn = IF cdn.ok THEN "ok" ELSE "failed"]
       IN req' = IF image.threw
                 THEN errorHandler(r, image.errStatus)
                 ELSE [r EXCEPT !.pc = "done", !.status = 200,
                                !.contentType = image.contentType, !.body = "image"]
    /\ UNCHANGED <<emoteSetIds, shape, upstream, lastSettled, overlapped, allEmotes, emoteCache, loads, lastJoin, listening>>

\* GET /api/emote/:emoteName
GetApiEmote(emoteName) ==
    /\ CanArrive
    /\ LET r == Arrived("apiEmote", emoteName, "", "", "")
           found == findEmote(emoteName, allEmotes, emoteCache)
       IN /\ emoteCache' = found.cache
          /\ req' = IF found.result = NoEmote
                    THEN Json(r, 404, "error")
                    ELSE Json([r EXCEPT !.emoteId = found.result.id], 200, "emote")
    /\ UNCHANGED <<emoteSetIds, shape, upstream, lastSettled, overlapped, allEmotes, loads, lastJoin, listening>>

\* GET /api/emotes: await fetchEmotes(), answered when that load joins.
GetApiEmotes(l) ==
    /\ CanArrive
    /\ CanStart(l)
    /\ loads' = Begin(l, "load")
    /\ lastJoin' = Forget(l)
    /\ overlapped' = (overlapped \/ InFlight # {})
    /\ req' = LET r == [Arrived("apiEmotes", <<>>, "", "", "") EXCEPT !.load = l]
              IN IF loads'[l].pc = "done" THEN apiEmotesRespond(r, loads'[l])
                 ELSE [r EXCEPT !.pc = "awaitLoad"]
    /\ UNCHANGED <<emoteSetIds, shape, upstream, lastSettled, allEmotes, emoteCache, listening>>

\* The startup block: await fetchEmotes(), then app.listen.
Startup ==
    /\ ~listening
    /\ loads[1].pc = "idle"
    /\ loads' = Begin(1, "load")
    /\ UNCHANGED <<emoteSetIds, shape, upstream, lastSettled, overlapped, allEmotes, emoteCache, lastJoin, req, listening>>

Listen ==
    /\ ~listening
    /\ loads[1].pc = "done"
    /\ ~loads[1].threw
    /\ listening' = TRUE
    /\ UNCHANGED <<emoteSetIds, shape, upstream, lastSettled, overlapped, allEmotes, emoteCache, loads, lastJoin, req>>

(* ------------------------------- system -------------------------------- *)

Shapes ==
    {sh \in [sets : 0..MaxSets, len : 1..MaxRespLen, loads : 1..MaxLoads] :
        /\ sh.sets * sh.len * sh.loads * sh.loads <= MaxWork
        /\ sh.sets = 0 => (sh.len = 1 /\ sh.loads = 1)
        \* the longest responses the budget allows: shorter ones are among them
        /\ sh.sets > 0 =>
              \/ sh.len = MaxRespLen
              \/ sh.sets * (sh.len + 1) * sh.loads * sh.loads > MaxWork}

Init ==
    /\ \E sh \in Shapes :
          /\ emoteSetIds = [i \in 1..sh.sets |-> i]
          /\ shape = [len |-> sh.len, loads |-> sh.loads]
    /\ upstream \in Pools
    /\ allEmotes = <<>>
    /\ emoteCache = EmptyCache
    /\ loads = [l \in LoadIds |-> IdleLoad]
    /\ lastJoin = 0
    /\ req = IdleReq
    /\ listening = FALSE
    /\ lastSettled = 0
    /\ overlapped = FALSE

Next ==
    \/ \E l \in LoadIds : fetchEmotes(l)
    \/ \E l \in LoadIds : refreshEmotes(l)
    \/ \E l \in LoadIds, i \in SetIndexes, resp \in Responses(upstream) : FetchEmoteSetDone(l, i, resp)
    \/ \E l \in LoadIds : FetchEmotesJoin(l)
    \/ \E name \in FindNames : Find(name)
    \/ \E k \in DOMAIN emoteCache : Expire(k)

Spec == Init /\ [][Next]_vars

\* The server of index.ts: one configured upstream, the startup load, then
\* requests; refreshEmotes is exported and never called by a route.
HttpPool == {RecX1, RecX2}

InitHttp ==
    /\ \E n \in 0..1 : emoteSetIds = [i \in 1..n |-> i]
    /\ shape = [len |-> MaxRespLen, loads |-> 1]
    /\ upstream = HttpPool
    /\ allEmotes = <<>>
    /\ emoteCache = EmptyCache
    /\ loads = [l \in LoadIds |-> IdleLoad]
    /\ lastJoin = 0
    /\ req = IdleReq
    /\ listening = FALSE
    /\ lastSettled = 0
    /\ overlapped = FALSE

NextHttp ==
    \/ Startup
    \/ Listen
    \/ \E l \in LoadIds, i \in SetIndexes, resp \in Responses(upstream) : FetchEmoteSetDone(l, i, resp)
    \/ \E l \in LoadIds : FetchEmotesJoin(l)
    \/ \E k \in DOMAIN emoteCache : Expire(k)
    \/ \E name \in RequestNames, ext \in ImageFormats, size \in QuerySizes :
          GetEmoteWithExtension(name, ext, size)
    \/ \E name \in RequestNames, format \in QueryFormats, size \in QuerySizes, accept \in AcceptHeaders :
          GetEmote(name, format, size, accept)
    \/ \E cdn \in CdnAnswers : CdnResponds(cdn)
    \/ \E name \in RequestNames : GetApiEmote(name)
    \/ \E l \in LoadIds : GetApiEmotes(l)

SpecHttp == InitHttp /\ [][NextHttp]_vars
(* ------------------------------- claims -------------------------------- *)
Range(s) == {s[i] : i \in 1..Len(s)}
Find0(name) == findEmote(name, allEmotes, emoteCache)
ValidEmotesOf(records) ==
    LET valid == SelectSeq(records, SevenTVEmoteSchemaOk)
    IN [k \in 1..Len(valid) |-> mapSevenTVEmote(valid[k])]
EmotesOfSuccessful(resp) ==
    IF SevenTVEmoteSetSchemaOk(resp)
    THEN [k \in 1..Len(resp.emotes) |-> mapSevenTVEmote(resp.emotes[k])]
    ELSE <<>>
Finished(l) == loads[l].pc = "done"

\* C1: a set response with a record that misses id or name among valid
\* records yields exactly the valid records of that set as Emotes.
C1_MalformedRecordDropped ==
    \A l \in LoadIds : \A i \in DOMAIN loads[l].fetched :
        loads[l].fetched[i].kind = "body" =>
            loads[l].results[i].emotes = ValidEmotesOf(loads[l].fetched[i].emotes)

\* C2: when some set fetches fail and the others succeed, the load raises no
\* error and returns exactly the emotes of the successful sets, in order.
C2_DegradedLoad ==
    \A l \in LoadIds :
        Finished(l) =>
            /\ ~loads[l].threw
            /\ loads[l].returned =
                 flat([i \in DOMAIN loads[l].fetched |-> EmotesOfSuccessful(loads[l].fetched[i])])

C2_Witness ==
    \E l \in LoadIds :
        /\ Finished(l)
        /\ \E i, j \in DOMAIN loads[l].fetched :
              /\ loads[l].fetched[i].kind = "error"
              /\ SevenTVEmoteSetSchemaOk(loads[l].fetched[j])
              /\ loads[l].fetched[j].emotes # <<>>
        /\ loads[l].returned # <<>>

\* C3: once a refresh has completed, find returns not-found for every name
\* absent from the list that refresh loaded, whatever finds ran while it was
\* in flight (stated for runs where no other load overlaps the refresh).
AbsentFrom(name, emotes) ==
    \A e \in Range(emotes) : toLowerCase(e.name) # toLowerCase(trim(name))

C3_RemovedEmoteGone ==
    \A l \in LoadIds :
        ( /\ shape.loads = 1
          /\ Finished(l) /\ loads[l].kind = "refresh" /\ ~loads[l].threw /\ lastJoin = l ) =>
            \A name \in FindNames :
                AbsentFrom(name, loads[l].returned) => Find0(name).result = NoEmote

\* C4 as stated: for every Emote e of allEmotes, find(e.name) and
\* find(e.name.toUpperCase()) both return an Emote whose id is e.id.
C4_LookupByOwnName ==
    \A i \in 1..Len(allEmotes) :
        /\ Find0(allEmotes[i].name).result.id = allEmotes[i].id
        /\ Find0(toUpperCase(allEmotes[i].name)).result.id = allEmotes[i].id

PlainName(n) == n # EmptyString /\ trim(n) = n
CaseRoundTrips(n) == toLowerCase(toUpperCase(n)) = toLowerCase(n)
OnlyOneNamed(e) ==
    \A j \in 1..Len(allEmotes) :
        toLowerCase(allEmotes[j].name) = toLowerCase(e.name) => allEmotes[j].id = e.id

\* C4 amended: for every Emote e of allEmotes whose name is non-empty, has no
\* leading or trailing whitespace, and is shared (case-insensitively) with no
\* emote of another id, find(e.name) returns an Emote whose id is e.id, and so
\* does find(e.name.toUpperCase()) when lower-casing the upper-cased name
\* gives the lower-cased name.
C4_LookupByOwnName_Amended ==
    \A i \in 1..Len(allEmotes) :
        LET e == allEmotes[i]
        IN (PlainName(e.name) /\ OnlyOneNamed(e)) =>
              /\ Find0(e.name).result.id = e.id
              /\ CaseRoundTrips(e.name) => Find0(toUpperCase(e.name)).result.id = e.id

C4_Witness ==
    \E i \in 1..Len(allEmotes) :
        LET e == allEmotes[i]
        IN /\ PlainName(e.name) /\ OnlyOneNamed(e) /\ CaseRoundTrips(e.name)
           /\ toUpperCase(e.name) # e.name
           /\ Len(allEmotes) > 1
           /\ ~CacheHas(emoteCache, toLowerCase(e.name))
           /\ Find0(toUpperCase(e.name)).result.id = e.id

\* C5: when two configured sets contribute emotes of the same case-insensitive
\* name and different ids, find of that name returns the emote of the later
\* set in every state after the load and before the next one.
C5_LastWriteWins ==
    \A l \in LoadIds :
        (Finished(l) /\ lastJoin = l) =>
            \A i, j \in DOMAIN loads[l].results :
                \A a \in Range(loads[l].results[i].emotes), b \in Range(loads[l].results[j].emotes) :
                    ( /\ i < j
                      /\ toLowerCase(a.name) = toLowerCase(b.name)
                      /\ a.id # b.id
                      /\ \A k \in DOMAIN loads[l].results :
                            k > j => AbsentFrom(a.name, loads[l].results[k].emotes) )
                    => Find0(a.name).result \in Range(loads[l].results[j].emotes)

\* C6: whatever the order in which the set fetches settle, the list a load
\* returns and stores in allEmotes is the concatenation of the per-set lists
\* in configured order.
C6_MergeOrder ==
    \A l \in LoadIds :
        (Finished(l) /\ ~loads[l].threw) =>
            /\ loads[l].returned =
                 flat([i \in DOMAIN loads[l].fetched |-> fetchEmoteSet(loads[l].fetched[i]).emotes])
            /\ lastJoin = l => allEmotes = loads[l].returned

C6_Witness ==
    \E l \in LoadIds :
        /\ Finished(l)
        /\ Len(loads[l].settledOrder) > 1
        /\ loads[l].settledOrder[1] > loads[l].settledOrder[2]
        /\ loads[l].results[1].emotes # <<>>
        /\ loads[l].results[2].emotes # <<>>
        /\ loads[l].results[1].emotes # loads[l].results[2].emotes
        /\ allEmotes = loads[l].results[1].emotes \o loads[l].results[2].emotes

\* C8: find("") returns not-found in every registry state, reads no cache
\* entry, scans nothing and leaves the cache as it is.
C8_EmptyNameShortCircuit ==
    Find0(EmptyString) = FindOutcome(NoEmote, emoteCache, FALSE, FALSE)

C8_Witness ==
    /\ CacheHas(emoteCache, EmptyString)
    /\ \E e \in Range(allEmotes) : e.name = EmptyString
    /\ Find0(EmptyString).result = NoEmote
ImageContentTypes == {"image/webp", "image/avif", "image/gif"}

\* C7: a request of GET /:emoteName whose format is outside webp, avif, gif
\* is rejected before the image fetch: it issues no CDN request and gets
\* no image content type.
C7_FormatValidated ==
    (req.route = "emoteName" /\ req.format \notin ImageFormats) =>
        /\ req.gets = 0
        /\ req.pc # "awaitImage"
        /\ req.contentType \notin ImageContentTypes

\* C9: when the CDN request for an image fails, exactly one upstream GET was
\* issued, the failure reaches the handler, and the request ends with an
\* error response, not with image bytes.
C9_ImageFailureSurfaced ==
    (req.pc = "done" /\ req.cdn = "failed") =>
        /\ req.gets = 1
        /\ req.status \in {404, 500}
        /\ req.body = "error"
        /\ req.contentType = "application/json"

C9_Witness ==
    /\ req.pc = "done"
    /\ req.cdn = "failed"
    /\ req.route = "emoteName"
    /\ req.format = "avif"
    /\ req.status = 500

\* C10: GET /:emoteName for a name that find resolves answers with the image
\* bytes and the image content type of the format, for every Accept header.
C10_ImageReturnedDirectly ==
    ( /\ req.route = "emoteName"
      /\ req.pc = "done"
      /\ req.emoteId # ""
      /\ req.format \in ImageFormats
      /\ req.cdn # "failed" ) =>
        /\ req.body = "image"
        /\ req.contentType = contentTypeOf(req.format)
CachedEmotes == {emoteCache[k] : k \in DOMAIN emoteCache}

\* C11: every Emote of allEmotes and of the cache has a non-empty id and a
\* non-empty name; a record whose id or name is "" never becomes an Emote.
C11_EmotesHaveIdAndName ==
    \A e \in Range(allEmotes) \cup CachedEmotes :
        e.id # "" /\ e.name # EmptyString

\* C12: when the cache holds no entry for the normalized name and allEmotes
\* holds an emote of that lower-case name, find returns such an emote found
\* by the scan and the cache then maps the normalized name to it.
C12_CacheThenScan ==
    \A name \in FindNames :
        LET normalizedName == toLowerCase(trim(name))
            found == Find0(name)
        IN ( /\ ~CacheHas(emoteCache, normalizedName)
             /\ \E e \in Range(allEmotes) : toLowerCase(e.name) = normalizedName ) =>
               /\ found.result \in Range(allEmotes)
               /\ toLowerCase(found.result.name) = normalizedName
               /\ found.scanned
               /\ CacheHas(found.cache, normalizedName)
               /\ found.cache[normalizedName] = found.result

\* C15: every response to a request under /api carries
\* Cache-Control: max-age=1800; the 7-day header is for image requests only.
C15_ApiCacheControl ==
    (req.pc = "done" /\ req.route \in {"apiEmotes", "apiEmote"}) =>
        req.cacheControl = ApiMaxAge
\* What the fetches of the call l yielded, merged in configured order.
LoadedBy(l) == flat([i \in DOMAIN loads[l].results |-> loads[l].results[i].emotes])

\* C13: when fetchEmotes / refreshEmotes calls overlap, allEmotes after they
\* have completed is what the call whose fetches completed last loaded,
\* whichever call started first; both calls run to completion.
C13_LastCompletedWins ==
    (InFlight = {} /\ lastSettled # 0) =>
        /\ Finished(lastSettled)
        /\ allEmotes = LoadedBy(lastSettled)

C13_Witness ==
    /\ shape.loads = 2
    /\ Finished(1) /\ Finished(2)
    /\ 1 \in loads[2].startedAfter
    /\ lastSettled = 1
    /\ LoadedBy(1) # LoadedBy(2)
    /\ allEmotes = LoadedBy(1)

\* C14 as stated: with no refresh among the calls, allEmotes never loses an
\* emote it held (the server never calls refreshEmotes).
C14_OnlyRefreshShrinks ==
    [][Range(allEmotes) \subseteq Range(allEmotes')]_vars

\* C14 amended: with no refresh among the calls, allEmotes changes only when
\* a loadAll completes, which replaces it by what that call loaded (and so
\* can shrink it); find and resolve never change it.
C14_OnlyLoadsChange ==
    [][allEmotes' # allEmotes =>
          \E l \in LoadIds :
              /\ loads[l].pc = "fetching"
              /\ loads'[l].pc = "done"
              /\ allEmotes' = LoadedBy(l)']_vars

C14_Witness ==
    /\ req.route = "apiEmotes"
    /\ req.pc = "done"
    /\ req.body = "emoteList"
    /\ allEmotes = <<>>
    /\ CachedEmotes # {}

\* C16: when no load is in flight, after calls that never overlapped, every
\* cache entry maps to an Emote that is in allEmotes.
C16_CacheWithinAllEmotes ==
    (InFlight = {} /\ ~overlapped) => CachedEmotes \subseteq Range(allEmotes)

\* A refreshEmotes call is suspended at its await; what findEmote(name)
\* returns is an emote of allEmotes with that case-insensitive name.
RefreshInFlight == \E l \in LoadIds : loads[l].pc = "fetching" /\ loads[l].kind = "refresh"

FoundInList(name) ==
    /\ Find0(name).result \in Range(allEmotes)
    /\ toLowerCase(Find0(name).result.name) = toLowerCase(name)

\* C17 as stated: across the start of a refresh and every step while it is
\* in flight, find(name) of every name allEmotes held before the step
\* returns an emote of that name from the list: lookups are served from the
\* pre-refresh allEmotes, never from an empty one.
C17_LookupsDuringRefresh ==
    [][(shape.loads = 1 /\ RefreshInFlight') =>
          \A e \in Range(allEmotes) : FoundInList(e.name)']_vars

\* C17 amended: across the start of a refresh and every step while it is in
\* flight, find(name) of every name allEmotes held before the step that is
\* non-empty and has no leading or trailing whitespace returns an emote of
\* that name from the list.
C17_LookupsDuringRefresh_Amended ==
    [][(shape.loads = 1 /\ RefreshInFlight') =>
          \A e \in Range(allEmotes) : PlainName(e.name) => FoundInList(e.name)']_vars

C17_Witness ==
    /\ shape.loads = 1
    /\ RefreshInFlight
    /\ emoteCache = EmptyCache
    /\ \E e \in Range(allEmotes) :
          /\ PlainName(e.name)
          /\ Find0(e.name).scanned
          /\ Find0(e.name).result = e
====
